---- MODULE Spec2Model ----
(***************************************************************************)
(* Model of the BacteriaHunter simulation core                             *)
(* (src/components/games/BacteriaHunter.tsx) and, in its own section and   *)
(* variables, of the launch cycle of ProjectileMotion                      *)
(* (src/components/games/ProjectileMotion.tsx).                            *)
(*                                                                         *)
(* State: the two ref arrays the animation loop owns (bacteriaRef,         *)
(* projectilesRef), the pointer-lock ref, Date.now(), the React state of   *)
(* the component (score, bacteriaKilled, totalBacteria, gameComplete),     *)
(* the React update queues filled by the animation loop and drained by     *)
(* the next render, and a log of the two prop callbacks.                   *)
(*                                                                         *)
(* Geometry: three.js positions are not stored.  What the collision loop   *)
(* reads from them is the outcome of `distance < 0.6` for every            *)
(* projectile/bacterium pair after steering and advance; that relation is  *)
(* the variable `near`, chosen afresh in every tick.                       *)
(*                                                                         *)
(* Closures: updateProjectiles is created inside the mount effect, whose   *)
(* dependency list is [] (line 715), so the identifiers score,             *)
(* totalBacteria and gameComplete it reads are those of the first render.  *)
(***************************************************************************)
EXTENDS Integers, Sequences, FiniteSets, TLC

\* ------------------------------------------------------------------ bounds
\* positions of the spawn order whose type is drawn freely; later ones are ecoli
TypedPrefix == 2
\* a projectile is only ever within hit radius of the first Reach list entries
Reach == 2
\* live projectiles the model lets the player accumulate
MaxProjectiles == 2
\* cap on Date.now() (ms since mount)
MaxNow == 4000
\* Math.random() is modelled as r / RandomDen with r in 0..RandomDen-1
RandomDen == 10
\* projectile lifetime runs: cap on Date.now(), and live projectiles
LifeMaxNow == 3400
LifeMaxProjectiles == 1
\* successful landings followed in ProjectileMotion
MaxLandings == 6
\* setTimeout callbacks of ProjectileMotion pending at once
MaxTimers == 2
\* runs of the ProjectileMotion mount effect (it re-runs when its props change)
MaxEffectRuns == 6
\* how far below zero the wander countdown of a chasing bacterium is followed (ms)
MaxOverdue == 300

\* --------------------------------------------------------- program constants
BACTERIA_TYPES ==
  [ ecoli         |-> [speed |-> 2, health |-> 1, points |-> 10, behavior |-> "wander"],
    streptococcus |-> [speed |-> 3, health |-> 2, points |-> 25, behavior |-> "chase"] ]

TypeKeys == {"ecoli", "streptococcus"}

\* generateLevel: room[0] is the spawn room, then one room per direction
RoomHasBacteria == <<FALSE, TRUE, TRUE, TRUE, TRUE>>

\* spawnBacteriaInRoom: 3 + Math.floor(Math.random() * 3)
SpawnCountsM == {3 + r : r \in 0..3}
SpawnCounts == {3 + r : r \in 0..2}

ProjectileSpeed == 25
Lifetime == 3000
Bonus == 50
MaxReported == 100

\* values of the component state in the first render, which the closures of
\* the mount effect keep reading (useState initial values, deps [] at 715)
mountScore == 0
mountTotalBacteria == 0
mountGameComplete == FALSE

\* Date.now() increments between two frames observed by the model: the same
\* reading (coarse timer), or a long pause
Deltas == {0, 4000}

\* Math.ceil(total * 0.8)
CompletionThreshold(total) == (8 * total + 9) \div 10

Min(a, b) == IF a < b THEN a ELSE b

VARIABLES
  bacteria,            \* bacteriaRef.current: Seq of [type, health]
  projectiles,         \* projectilesRef.current: Seq of [speed, createdAt]
  now,                 \* last Date.now() reading
  isPointerLocked,     \* isPointerLockedRef.current
  near,                \* near[p]: indices b with distance(p, b) < 0.6 in this tick
  projectilesToRemove, \* local array of updateProjectiles
  bacteriaToRemove,    \* local array of updateProjectiles
  pc,                  \* "idle" | "sweep" (inside updateProjectiles) | "render"
  score, bacteriaKilled, totalBacteria, gameComplete,   \* committed React state
  scoreQueue,          \* pending setScore(value) calls
  killedQueue,         \* pending setBacteriaKilled updaters (their captured newScore)
  scoreUpdates,        \* onScoreUpdate: [count, last]
  completes,           \* onComplete: [count, last]
  bonusCount,          \* history: executions of setScore(bonusScore) (lines 617, 724)
  killedPoints,        \* history: sum of the point values of all bacteria killed
  events,              \* history: what the current tick did so far, in order
  rooms,               \* mount effect: const rooms = generateLevel()
  roomIndex,           \* mount effect: rooms already visited by rooms.forEach
  bacteriaCount,       \* mount effect: let bacteriaCount
  steered,             \* one bacterium as updateBacteria sees it:
                       \*   [type, y, wanderTimer, targetPosition]
  steerLog,            \* history: what the last steering step of it did
  isLaunched,          \* ProjectileMotion: React state isLaunched
  isLaunchedRef,       \* ProjectileMotion: isLaunchedRef.current
  successCount,        \* ProjectileMotion: React state successCount
  isPhysicsReady,      \* ProjectileMotion: let isPhysicsReady of the mount effect
  closureSuccessCount, \* ProjectileMotion: successCount as the mount effect captured it
  resetTimers,         \* ProjectileMotion: pending setTimeout(requestReset) callbacks
  launchScoreUpdates,  \* ProjectileMotion: onScoreUpdate: [count, last]
  completeTimers,      \* ProjectileMotion: scores of the setTimeout(onComplete) scheduled
  landings,            \* history: successful landings in the dustbin so far
  effectRuns           \* history: runs of the ProjectileMotion mount effect

vars == <<bacteria, projectiles, now, isPointerLocked, near, projectilesToRemove,
          bacteriaToRemove, pc, score, bacteriaKilled, totalBacteria, gameComplete,
          scoreQueue, killedQueue, scoreUpdates, completes, bonusCount,
          killedPoints, events, rooms, roomIndex, bacteriaCount,
          steered, steerLog, isLaunched, isLaunchedRef, successCount,
          isPhysicsReady, closureSuccessCount, resetTimers, launchScoreUpdates,
          completeTimers, landings, effectRuns>>

\* the locals of the mount effect
mountVars == <<rooms, roomIndex, bacteriaCount>>

\* what the steering of one bacterium reads and writes
steerVars == <<steered, steerLog>>

\* the ProjectileMotion component (src/components/games/ProjectileMotion.tsx)
launchVars == <<isLaunched, isLaunchedRef, successCount, isPhysicsReady,
                closureSuccessCount, resetTimers, launchScoreUpdates,
                completeTimers, landings, effectRuns>>

\* the BacteriaHunter component
hunterVars == <<bacteria, projectiles, now, isPointerLocked, near,
                projectilesToRemove, bacteriaToRemove, pc, score, bacteriaKilled,
                totalBacteria, gameComplete, scoreQueue, killedQueue, scoreUpdates,
                completes, bonusCount, killedPoints, events, mountVars>>

\* ------------------------------------------------------------ generateLevel
\* offsets of the connected rooms: forward, right, left, far forward
\* a level without the far-forward room
DirectionsM == << <<0, 0, -20>>, <<20, 0, 0>>, <<-20, 0, 0>> >>
Directions == << <<0, 0, -20>>, <<20, 0, 0>>, <<-20, 0, 0>>, <<0, 0, -40>> >>

\* lengths are kept in units of 1 / RandomDen
OriginRoom == [position    |-> <<0, 0, 0>>,
               size        |-> [width  |-> 12 * RandomDen,
                                height |-> 6 * RandomDen,
                                depth  |-> 12 * RandomDen],
               hasBacteria |-> FALSE]

\* one connected room; draw.w, draw.h, draw.d are its three Math.random() results
ConnectedRoom(dir, draw) ==
  [position    |-> dir,
   size        |-> [width  |-> 10 * RandomDen + draw.w * 6,
                    height |-> 5 * RandomDen + draw.h * 3,
                    depth  |-> 10 * RandomDen + draw.d * 6],
   hasBacteria |-> TRUE]

\* generateLevel(): the spawn room, then one room per direction
GenerateLevel(draws) ==
  <<OriginRoom>> \o [i \in 1..Len(Directions) |-> ConnectedRoom(Directions[i], draws[i])]

\* Math.random() results the model draws: the smallest and the largest
RandomDraws == {0, RandomDen - 1}
RoomDraws == [w : RandomDraws, h : RandomDraws, d : RandomDraws]
ZeroDraw == [w |-> 0, h |-> 0, d |-> 0]

\* the steering variables while no steering step is followed
SteerIdle ==
  /\ steered = [type |-> "ecoli", y |-> 1000, wanderTimer |-> 0, targetPosition |-> 0]
  /\ steerLog = [rule |-> "none", dist |-> 0, goal |-> 0, picked |-> FALSE, dt |-> 0]

\* ProjectileMotion after its first render and the synchronous part of its
\* mount effect: initPhysics() is awaiting the import of ammo.js
ProjectileMotionInit ==
  /\ isLaunched = FALSE
  /\ isLaunchedRef = FALSE
  /\ successCount = 0
  /\ isPhysicsReady = FALSE
  /\ closureSuccessCount = 0
  /\ resetTimers = 0
  /\ launchScoreUpdates = [count |-> 0, last |-> 0]
  /\ completeTimers = <<>>
  /\ landings = 0
  /\ effectRuns = 1

\* ------------------------------------------------------------------ spawn
PopulatedRooms == {i \in 1..Len(RoomHasBacteria) : RoomHasBacteria[i]}

RECURSIVE SumCounts(_, _)
SumCounts(counts, rs) ==
  IF rs = {} THEN 0
  ELSE LET r == CHOOSE x \in rs : TRUE
       IN counts[r] + SumCounts(counts, rs \ {r})

NewBacteria(typeKey) ==
  [type |-> typeKey, health |-> BACTERIA_TYPES[typeKey].health]

Init ==
  /\ SteerIdle
  /\ ProjectileMotionInit
  /\ \E counts \in [PopulatedRooms -> SpawnCounts] :
       LET n == SumCounts(counts, PopulatedRooms) IN
       /\ totalBacteria = n
       /\ \E keys \in [1..TypedPrefix -> TypeKeys] :
            bacteria = [i \in 1..n |->
                          NewBacteria(IF i <= TypedPrefix THEN keys[i] ELSE "ecoli")]
  /\ projectiles = <<>>
  /\ now = 0
  /\ isPointerLocked = FALSE
  /\ near = <<>>
  /\ projectilesToRemove = <<>>
  /\ bacteriaToRemove = <<>>
  /\ pc = "idle"
  /\ score = 0
  /\ bacteriaKilled = 0
  /\ gameComplete = FALSE
  /\ scoreQueue = <<>>
  /\ killedQueue = <<>>
  /\ scoreUpdates = [count |-> 0, last |-> 0]
  /\ completes = [count |-> 0, last |-> 0]
  /\ bonusCount = 0
  /\ killedPoints = 0
  /\ events = <<>>
  /\ rooms = GenerateLevel([i \in 1..Len(Directions) |-> ZeroDraw])
  /\ roomIndex = Len(rooms)
  /\ bacteriaCount = totalBacteria

\* ------------------------------------------------------------ input handlers
\* a pointerlockchange handler that could run in the middle of animate
HandlePointerLockChangeM ==
  /\ isPointerLocked' = ~isPointerLocked
  /\ UNCHANGED <<bacteria, projectiles, now, near, projectilesToRemove,
                 bacteriaToRemove, pc, score, bacteriaKilled, totalBacteria,
                 gameComplete, scoreQueue, killedQueue, scoreUpdates, completes,
                 bonusCount, killedPoints, events, mountVars,
                 steerVars, launchVars>>

\* pointerlockchange: the browser grants or releases the lock
HandlePointerLockChange ==
  /\ pc \in {"idle", "render"}
  /\ isPointerLocked' = ~isPointerLocked
  /\ UNCHANGED <<bacteria, projectiles, now, near, projectilesToRemove,
                 bacteriaToRemove, pc, score, bacteriaKilled, totalBacteria,
                 gameComplete, scoreQueue, killedQueue, scoreUpdates, completes,
                 bonusCount, killedPoints, events, mountVars,
                 steerVars, launchVars>>

\* a shoot() that pushes the new projectile twice
ShootM(ps, t) ==
  ps \o << [speed |-> ProjectileSpeed, createdAt |-> t],
           [speed |-> ProjectileSpeed, createdAt |-> t] >>
\* shoot(): push one projectile stamped with Date.now()
Shoot(ps, t) == Append(ps, [speed |-> ProjectileSpeed, createdAt |-> t])

\* click: request the pointer lock when not locked, else shoot
HandleClickUpTo(maxLive) ==
  /\ pc \in {"idle", "render"}
  /\ Len(projectiles) < maxLive
  /\ projectiles' = IF isPointerLocked THEN Shoot(projectiles, now) ELSE projectiles
  /\ UNCHANGED <<bacteria, now, isPointerLocked, near, projectilesToRemove,
                 bacteriaToRemove, pc, score, bacteriaKilled, totalBacteria,
                 gameComplete, scoreQueue, killedQueue, scoreUpdates, completes,
                 bonusCount, killedPoints, events, mountVars,
                 steerVars, launchVars>>

HandleClick == HandleClickUpTo(MaxProjectiles)

\* -------------------------------------------------------- updateBacteria
\* `if (bacteria.health <= 0) return` of updateBacteria: the rest is steered
Steered(bs) == {b \in 1..Len(bs) : bs[b].health > 0}

\* entry of the tick history: what was done, to which projectile, to which bacteria
Event(op, pIndex, bSet) == [op |-> op, p |-> pIndex, bs |-> bSet]

\* updateBacteria: one steering step for every bacterium with hit points left
SteerAll(bs) == <<Event("steer", 0, Steered(bs))>>

\* animate with the two calls swapped
AnimateOrderM(steer, scan) == scan \o steer
\* animate: updateBacteria(deltaTime), then updateProjectiles(deltaTime)
AnimateOrder(steer, scan) == steer \o scan

\* ------------------------------------------------- updateProjectiles, scan
\* a scan without the health guard: every bacterium is collision-tested
IsLiveM(b) == TRUE
\* `if (bacteria.health <= 0) return`: only bacteria with hit points left are tested
\* a guard that lets only undamaged bacteria be hit
IsLiveF(b) == b.health >= BACTERIA_TYPES[b.type].health
IsLive(b) == b.health > 0

\* a lifetime check that never fires
ExpiredN(p, t) == FALSE
ExpiredM(p, t) == t - p.createdAt >= Lifetime
Expired(p, t) == t - p.createdAt > Lifetime

\* inner forEach over bacteriaRef.current for projectile pIndex
RECURSIVE CollideFrom(_, _, _, _)
CollideFrom(acc, pIndex, nearSet, bIndex) ==
  IF bIndex > Len(acc.bs) THEN acc
  ELSE IF ~IsLive(acc.bs[bIndex]) THEN CollideFrom(acc, pIndex, nearSet, bIndex + 1)
  ELSE IF bIndex \in nearSet
       THEN LET h == acc.bs[bIndex].health - 1
                hit == [acc EXCEPT
                          !.bs   = [acc.bs EXCEPT ![bIndex].health = h],
                          !.pRem = Append(acc.pRem, pIndex),
                          !.bRem = IF h <= 0 THEN Append(acc.bRem, bIndex) ELSE acc.bRem]
            IN CollideFrom(hit, pIndex, nearSet, bIndex + 1)
       ELSE CollideFrom(acc, pIndex, nearSet, bIndex + 1)

\* outer forEach over projectilesRef.current
RECURSIVE ScanFrom(_, _, _, _, _)
ScanFrom(acc, ps, nr, t, pIndex) ==
  IF pIndex > Len(ps) THEN acc
  ELSE LET moved == [acc EXCEPT !.ev = Append(@, Event("advance", pIndex, {}))]
       IN IF Expired(ps[pIndex], t)
          THEN ScanFrom([moved EXCEPT !.pRem = Append(@, pIndex),
                                      !.ev = Append(@, Event("expire", pIndex, {}))],
                        ps, nr, t, pIndex + 1)
          ELSE LET tested == {b \in 1..Len(acc.bs) : IsLive(acc.bs[b])}
                   start == [moved EXCEPT !.ev = Append(@, Event("test", pIndex, tested))]
               IN ScanFrom(CollideFrom(start, pIndex, nr[pIndex], 1),
                           ps, nr, t, pIndex + 1)

\* animate up to the end of the scan loop of updateProjectiles; Date.now()
\* advances by one of deltas up to cap, projectiles come near the first reach
\* bacteria only
TickWith(deltas, cap, reach) ==
  /\ pc = "idle"
  /\ \E d \in deltas :
       /\ now + d <= cap
       /\ now' = now + d
  /\ \E nr \in [1..Len(projectiles) ->
                  SUBSET {b \in 1..Len(bacteria) : b <= reach}] :
       LET acc == ScanFrom([bs |-> bacteria, pRem |-> <<>>, bRem |-> <<>>, ev |-> <<>>],
                           projectiles, nr, now', 1)
       IN /\ near' = nr
          /\ bacteria' = acc.bs
          /\ projectilesToRemove' = acc.pRem
          /\ bacteriaToRemove' = acc.bRem
          /\ events' = AnimateOrder(SteerAll(bacteria), acc.ev)
  /\ pc' = "sweep"
  /\ UNCHANGED <<projectiles, isPointerLocked, score, bacteriaKilled, totalBacteria,
                 gameComplete, scoreQueue, killedQueue, scoreUpdates, completes,
                 bonusCount, killedPoints, mountVars,
                 steerVars, launchVars>>

Tick == TickWith(Deltas, MaxNow, Reach)

\* --------------------------------------- updateProjectiles, removal and score
Range(seq) == {seq[i] : i \in DOMAIN seq}

\* Array.from(new Set(xs)).sort((a, b) => b - a)
RECURSIVE SortAsc(_)
SortAsc(S) ==
  IF S = {} THEN <<>>
  ELSE LET m == CHOOSE x \in S : \A y \in S : x <= y
       IN <<m>> \o SortAsc(S \ {m})

RECURSIVE SortDesc(_)
SortDesc(S) ==
  IF S = {} THEN <<>>
  ELSE LET m == CHOOSE x \in S : \A y \in S : y <= x
       IN <<m>> \o SortDesc(S \ {m})

\* the marks as pushed: duplicates kept, order of the scan
UniqueDescK(xs) == xs
\* a unique list that always holds the first index
UniqueDescM(xs) == SortDesc(Range(xs) \cup {1})
UniqueDesc(xs) == SortDesc(Range(xs))

\* arr.splice(index, 0): nothing is removed
SpliceM(arr, index) == arr
\* arr.splice(index, 1)
Splice(arr, index) ==
  [i \in 1..(Len(arr) - 1) |-> IF i < index THEN arr[i] ELSE arr[i + 1]]

\* uniqueProjectiles.forEach: splice every listed index that still holds an element
RECURSIVE RemoveProjectiles(_, _)
RemoveProjectiles(ps, idxs) ==
  IF idxs = <<>> THEN ps
  ELSE IF Head(idxs) <= Len(ps)
       THEN RemoveProjectiles(Splice(ps, Head(idxs)), Tail(idxs))
       ELSE RemoveProjectiles(ps, Tail(idxs))

\* `const newScore = score + bacteria.type.points`, score read from the closure
NewScore(b) == mountScore + BACTERIA_TYPES[b.type].points

\* uniqueBacteria.forEach: setScore, onScoreUpdate, setBacteriaKilled(updater), splice
RECURSIVE RemoveBacteria(_, _)
RemoveBacteria(acc, idxs) ==
  IF idxs = <<>> THEN acc
  ELSE IF Head(idxs) <= Len(acc.bs)
       THEN LET b  == acc.bs[Head(idxs)]
                ns == NewScore(b)
            IN RemoveBacteria(
                 [bs |-> Splice(acc.bs, Head(idxs)),
                  sq |-> Append(acc.sq, ns),
                  kq |-> Append(acc.kq, ns),
                  su |-> [count |-> acc.su.count + 1, last |-> ns],
                  kp |-> acc.kp + BACTERIA_TYPES[b.type].points],
                 Tail(idxs))
       ELSE RemoveBacteria(acc, Tail(idxs))

\* rest of updateProjectiles (lines 584-637) and of animate
Sweep ==
  /\ pc = "sweep"
  /\ projectiles' = RemoveProjectiles(projectiles, UniqueDesc(projectilesToRemove))
  /\ LET acc == RemoveBacteria([bs |-> bacteria, sq |-> scoreQueue, kq |-> killedQueue,
                                su |-> scoreUpdates, kp |-> killedPoints],
                               UniqueDesc(bacteriaToRemove))
     IN /\ bacteria' = acc.bs
        /\ scoreQueue' = acc.sq
        /\ killedQueue' = acc.kq
        /\ scoreUpdates' = acc.su
        /\ killedPoints' = acc.kp
        /\ pc' = IF acc.sq = <<>> /\ acc.kq = <<>> THEN "idle" ELSE "render"
  /\ near' = <<>>
  /\ projectilesToRemove' = <<>>
  /\ bacteriaToRemove' = <<>>
  /\ events' = <<>>
  /\ UNCHANGED <<now, isPointerLocked, score, bacteriaKilled, totalBacteria,
                 gameComplete, completes, bonusCount, mountVars,
                 steerVars, launchVars>>

\* ------------------------------------------------------------- React render
\* onComplete(Math.min(100, bonusScore))
CallOnComplete(log, bonusScore) ==
  [count |-> log.count + 1, last |-> Min(MaxReported, bonusScore)]

\* an updater whose setGameComplete call toggles the flag
RunUpdaterT(st, ns) ==
  [killed    |-> st.killed + 1,
   complete  |-> ~st.complete,
   score     |-> ns + Bonus,
   bonuses   |-> st.bonuses + 1,
   completes |-> CallOnComplete(st.completes, ns + Bonus)]
\* an updater that returns prev instead of newCount when it completes the game
RunUpdaterM(st, ns) ==
  [killed    |-> st.killed,
   complete  |-> TRUE,
   score     |-> ns + Bonus,
   bonuses   |-> st.bonuses + 1,
   completes |-> CallOnComplete(st.completes, ns + Bonus)]
\* one setBacteriaKilled updater, run by the render that drains the queue; the
\* setGameComplete and setScore calls inside it are render-phase updates
RunUpdater(st, ns) ==
  LET newCount == st.killed + 1
      completionThreshold == CompletionThreshold(mountTotalBacteria)
  IN IF newCount >= completionThreshold /\ ~mountGameComplete
     THEN [killed    |-> newCount,
           complete  |-> TRUE,
           score     |-> ns + Bonus,
           bonuses   |-> st.bonuses + 1,
           completes |-> CallOnComplete(st.completes, ns + Bonus)]
     ELSE [st EXCEPT !.killed = newCount]

RECURSIVE RunUpdaters(_, _)
RunUpdaters(st, kq) ==
  IF kq = <<>> THEN st ELSE RunUpdaters(RunUpdater(st, Head(kq)), Tail(kq))

\* the completion useEffect (lines 718-728), run with the committed values
CompletionEffect(st) ==
  IF st.killed > 0 /\ totalBacteria > 0
  THEN LET completionThreshold == CompletionThreshold(totalBacteria)
       IN IF st.killed >= completionThreshold /\ ~st.complete
          THEN [killed    |-> st.killed,
                complete  |-> TRUE,
                score     |-> st.score + Bonus,
                bonuses   |-> st.bonuses + 1,
                completes |-> CallOnComplete(st.completes, st.score + Bonus)]
          ELSE st
  ELSE st

\* React drains both queues, commits, then runs the effect
Render ==
  /\ pc = "render"
  /\ LET queued == IF scoreQueue = <<>> THEN score ELSE scoreQueue[Len(scoreQueue)]
         st0 == [killed |-> bacteriaKilled, complete |-> gameComplete,
                 score |-> queued, bonuses |-> bonusCount, completes |-> completes]
         st  == CompletionEffect(RunUpdaters(st0, killedQueue))
     IN /\ score' = st.score
        /\ bacteriaKilled' = st.killed
        /\ gameComplete' = st.complete
        /\ completes' = st.completes
        /\ bonusCount' = st.bonuses
  /\ scoreQueue' = <<>>
  /\ killedQueue' = <<>>
  /\ pc' = "idle"
  /\ UNCHANGED <<bacteria, projectiles, now, isPointerLocked, near,
                 projectilesToRemove, bacteriaToRemove, totalBacteria, scoreUpdates,
                 killedPoints, events, mountVars,
                 steerVars, launchVars>>

Next == HandlePointerLockChange \/ HandleClick \/ Tick \/ Sweep \/ Render

Spec == Init /\ [][Next]_vars

\* ---------------------------------------------------------- the mount effect
\* the component after useState/useRef, before the mount effect has run
HunterMountInit ==
  /\ bacteria = <<>>
  /\ totalBacteria = mountTotalBacteria
  /\ projectiles = <<>>
  /\ now = 0
  /\ isPointerLocked = FALSE
  /\ near = <<>>
  /\ projectilesToRemove = <<>>
  /\ bacteriaToRemove = <<>>
  /\ pc = "mount"
  /\ score = mountScore
  /\ bacteriaKilled = 0
  /\ gameComplete = mountGameComplete
  /\ scoreQueue = <<>>
  /\ killedQueue = <<>>
  /\ scoreUpdates = [count |-> 0, last |-> 0]
  /\ completes = [count |-> 0, last |-> 0]
  /\ bonusCount = 0
  /\ killedPoints = 0
  /\ events = <<>>
  /\ rooms = <<>>
  /\ roomIndex = 0
  /\ bacteriaCount = 0

\* every component before its mount effect has done anything asynchronous
MountInit == HunterMountInit /\ SteerIdle /\ ProjectileMotionInit

\* const rooms = generateLevel(), the size draws taken from drawSet
GenerateWith(drawSet) ==
  /\ pc = "mount"
  /\ rooms = <<>>
  /\ \E draws \in [1..Len(Directions) -> drawSet] : rooms' = GenerateLevel(draws)
  /\ UNCHANGED <<bacteria, projectiles, now, isPointerLocked, near,
                 projectilesToRemove, bacteriaToRemove, pc, score, bacteriaKilled,
                 totalBacteria, gameComplete, scoreQueue, killedQueue, scoreUpdates,
                 completes, bonusCount, killedPoints, events, roomIndex,
                 bacteriaCount, steerVars, launchVars>>

LevelGenerate == GenerateWith(RoomDraws)

SpecLevel == MountInit /\ [][LevelGenerate]_vars

SpawnGenerate == GenerateWith({ZeroDraw})

\* spawnBacteriaInRoom: bacteriaCount bacteria pushed on the list
SpawnBacteriaInRoom(bs, count, keys) ==
  bs \o [i \in 1..count |->
           NewBacteria(IF Len(bs) + i <= TypedPrefix
                       THEN keys[Len(bs) + i] ELSE "ecoli")]

\* one iteration of rooms.forEach of the spawn loop
SpawnRoom ==
  /\ pc = "mount"
  /\ rooms # <<>>
  /\ roomIndex < Len(rooms)
  /\ IF rooms[roomIndex + 1].hasBacteria
     THEN \E count \in SpawnCounts, keys \in [1..TypedPrefix -> TypeKeys] :
            /\ bacteria' = SpawnBacteriaInRoom(bacteria, count, keys)
            /\ bacteriaCount' = bacteriaCount + count
     ELSE UNCHANGED <<bacteria, bacteriaCount>>
  /\ roomIndex' = roomIndex + 1
  /\ UNCHANGED <<projectiles, now, isPointerLocked, near, projectilesToRemove,
                 bacteriaToRemove, pc, score, bacteriaKilled, totalBacteria,
                 gameComplete, scoreQueue, killedQueue, scoreUpdates, completes,
                 bonusCount, killedPoints, events, rooms, steerVars, launchVars>>

\* setTotalBacteria(bacteriaCount) and the end of the mount effect
SpawnCommit ==
  /\ pc = "mount"
  /\ rooms # <<>>
  /\ roomIndex = Len(rooms)
  /\ totalBacteria' = bacteriaCount
  /\ pc' = "idle"
  /\ UNCHANGED <<bacteria, projectiles, now, isPointerLocked, near,
                 projectilesToRemove, bacteriaToRemove, score, bacteriaKilled,
                 gameComplete, scoreQueue, killedQueue, scoreUpdates, completes,
                 bonusCount, killedPoints, events, mountVars,
                 steerVars, launchVars>>

SpawnNext == SpawnGenerate \/ SpawnRoom \/ SpawnCommit \/ Next

SpecSpawn == MountInit /\ [][SpawnNext]_vars

\* ------------------------------------------- updateBacteria, one bacterium
\* Lengths are in thousandths of a unit, times in milliseconds, speeds in
\* units per second, distances to the player in tenths of a unit.  The
\* horizontal position is not stored: updateBacteria reads it only through
\* distToPlayer, which is an input of the step.  The velocity is not stored
\* either: lerp keeps its length at or below the type speed, and its vertical
\* component is an input of the step within that bound.

\* clock.getDelta() readings
FrameTimes == {0, 250}

\* Math.min(clock.getDelta(), 0.1)
DeltaTime(raw) == Min(raw, 100)

\* distToPlayer
Distances == {149, 150, 160}

\* velocity.y
VerticalSpeeds == {-2, 3}

\* the targets a wander pick can draw
TargetDraws == {1, 2}

\* Math.random() * range, the draw being k / RandomDen
Random(k, range) == (k * range) \div RandomDen

Max(a, b) == IF a > b THEN a ELSE b

\* a clamp without its upper end
ClampYM(y) == Max(500, y)
\* Math.max(0.5, Math.min(5, y))
ClampY(y) == Max(500, Min(5000, y))

\* a chase test that includes the range itself
ChasesM(dist) == dist <= 150
\* distToPlayer < 15
Chases(dist) == dist < 150

\* a wander pick that only looks at the countdown
PicksTargetM(b) == b.wanderTimer <= 0
\* bacteria.wanderTimer <= 0 || !bacteria.targetPosition
PicksTarget(b) == b.wanderTimer <= 0 \/ b.targetPosition = 0

\* the wander rule: a new target and countdown when due, else unchanged
Wander(b, k, target) ==
  IF PicksTarget(b)
  THEN [b EXCEPT !.targetPosition = target, !.wanderTimer = 2000 + Random(k, 2000)]
  ELSE b

\* the rule updateBacteria applies: [rule, goal], goal in tenths of units per second
Rule(b, dist) ==
  LET type == BACTERIA_TYPES[b.type]
  IN IF type.behavior = "wander"
     THEN [rule |-> "wander", goal |-> type.speed * 10]
     ELSE IF Chases(dist)
          THEN [rule |-> "chase", goal |-> type.speed * 10]
          ELSE [rule |-> "wander", goal |-> type.speed * 5]

\* a bacterium as spawnBacteriaInRoom pushes it
SteerSpawn ==
  /\ \E typeKey \in TypeKeys, ky \in RandomDraws, kt \in RandomDraws :
       steered = [type |-> typeKey, y |-> 1000 + Random(ky, 2000),
                  wanderTimer |-> Random(kt, 2000), targetPosition |-> 0]
  /\ steerLog = [rule |-> "none", dist |-> 0, goal |-> 0, picked |-> FALSE, dt |-> 0]

SteerInit == HunterMountInit /\ SteerSpawn /\ ProjectileMotionInit

\* the body of bacteriaRef.current.forEach in updateBacteria, for a live bacterium
SteerStep ==
  \E raw \in FrameTimes, dist \in Distances, vy \in VerticalSpeeds,
     k \in RandomDraws, target \in TargetDraws :
    LET deltaTime == DeltaTime(raw)
        b1 == [steered EXCEPT !.wanderTimer = @ - deltaTime]
        r  == Rule(b1, dist)
        b2 == IF r.rule = "wander" THEN Wander(b1, k, target) ELSE b1
        b3 == [b2 EXCEPT !.y = ClampY(@ + vy * deltaTime)]
    IN /\ b1.wanderTimer >= -MaxOverdue
       /\ vy <= BACTERIA_TYPES[steered.type].speed
       /\ -vy <= BACTERIA_TYPES[steered.type].speed
       /\ steered' = b3
       /\ steerLog' = [rule |-> r.rule, dist |-> dist, goal |-> r.goal,
                       picked |-> (r.rule = "wander" /\ PicksTarget(b1)),
                       dt |-> deltaTime]
       /\ UNCHANGED <<hunterVars, launchVars>>

SpecSteer == SteerInit /\ [][SteerStep]_vars

\* ------------------------------------------------------- ProjectileMotion
\* (src/components/games/ProjectileMotion.tsx)  The ball's flight is not
\* stored: what the component reads from the physics engine is whether the
\* ball has come to rest (the landing branch of updatePhysics) and whether
\* it rests in the dustbin (checkBallInDustbin), both inputs of UpdatePhysics.
RoundScore == 20
RoundsToWin == 5
FinalScore == 100

\* initPhysics() resumes after the import of ammo.js: world, dustbin and ball exist
InitPhysics ==
  /\ ~isPhysicsReady
  /\ isPhysicsReady' = TRUE
  /\ UNCHANGED <<hunterVars, steerVars, isLaunched, isLaunchedRef, successCount,
                 closureSuccessCount, resetTimers, launchScoreUpdates,
                 completeTimers, landings, effectRuns>>

\* launchBall: isLaunchedRef.current after the call
LaunchBall(ready, ref) == IF ready THEN TRUE ELSE ref

\* click on Launch (enabled while !isLaunched): handleLaunch, then the launch
\* effect dispatches 'launchBall', whose listener calls launchBall
HandleLaunch ==
  /\ ~isLaunched
  /\ isLaunched' = TRUE
  /\ isLaunchedRef' = LaunchBall(isPhysicsReady, isLaunchedRef)
  /\ UNCHANGED <<hunterVars, steerVars, successCount, isPhysicsReady,
                 closureSuccessCount, resetTimers, launchScoreUpdates,
                 completeTimers, landings, effectRuns>>

\* const newCount = successCount + 1, successCount read from the closure
NewCount(closureCount, stateCount) == closureCount + 1

\* animate -> updatePhysics when the launched ball has come to rest
UpdatePhysics ==
  /\ isPhysicsReady
  /\ isLaunchedRef
  /\ resetTimers < MaxTimers
  /\ \E checkBallInDustbin \in BOOLEAN :
       IF checkBallInDustbin
       THEN LET newCount == NewCount(closureSuccessCount, successCount)
                newScore == newCount * RoundScore
            IN /\ landings < MaxLandings
               /\ landings' = landings + 1
               /\ successCount' = newCount
               /\ launchScoreUpdates' = [count |-> launchScoreUpdates.count + 1,
                                         last  |-> newScore]
               /\ IF newCount >= RoundsToWin
                  THEN /\ completeTimers' = Append(completeTimers, FinalScore)
                       /\ resetTimers' = resetTimers
                  ELSE /\ resetTimers' = resetTimers + 1
                       /\ completeTimers' = completeTimers
       ELSE /\ resetTimers' = resetTimers + 1
            /\ UNCHANGED <<landings, successCount, launchScoreUpdates, completeTimers>>
  /\ isLaunchedRef' = FALSE
  /\ isLaunched' = FALSE
  /\ UNCHANGED <<hunterVars, steerVars, isPhysicsReady, closureSuccessCount,
                 effectRuns>>

\* a reset timer fires: 'requestReset' -> resetBall
ResetBall ==
  /\ resetTimers > 0
  /\ resetTimers' = resetTimers - 1
  /\ IF isPhysicsReady
     THEN isLaunchedRef' = FALSE /\ isLaunched' = FALSE
     ELSE UNCHANGED <<isLaunchedRef, isLaunched>>
  /\ UNCHANGED <<hunterVars, steerVars, successCount, isPhysicsReady,
                 closureSuccessCount, launchScoreUpdates, completeTimers,
                 landings, effectRuns>>

\* the parent passed a new onScoreUpdate or onComplete: cleanup, then the
\* mount effect runs again with the state of this render
MountEffect ==
  /\ effectRuns < MaxEffectRuns
  /\ effectRuns' = effectRuns + 1
  /\ isPhysicsReady' = FALSE
  /\ closureSuccessCount' = successCount
  /\ UNCHANGED <<hunterVars, steerVars, isLaunched, isLaunchedRef, successCount,
                 resetTimers, launchScoreUpdates, completeTimers, landings>>

LaunchNext == InitPhysics \/ HandleLaunch \/ UpdatePhysics \/ ResetBall \/ MountEffect

SpecLaunch == MountInit /\ [][LaunchNext]_vars

\* the import resolves, a launched ball comes to rest, a timer fires
SpecLaunchLive ==
  /\ SpecLaunch
  /\ WF_vars(InitPhysics)
  /\ WF_vars(UpdatePhysics)
  /\ WF_vars(ResetBall)

\* ------------------------------------- projectiles that hit nothing (lifetime)
\* Date.now() differences between two frames, in milliseconds
LifeDeltas == {100, 2900}

\* click with fewer live projectiles, so that each one can be followed to its end
LifeClick == HandleClickUpTo(LifeMaxProjectiles)

\* animate when no bacterium is within hit radius of any projectile
LifeTick == TickWith(LifeDeltas, LifeMaxNow, 0)

LifeNext == HandlePointerLockChange \/ LifeClick \/ LifeTick \/ Sweep

SpecLife == Init /\ [][LifeNext]_vars

\* ------------------------------------------------------------------ claims
\* the completion threshold of the level: ceil(0.8 x totalSpawned)
LevelThreshold == CompletionThreshold(totalBacteria)

\* bacteria removed from the live set so far (exact outside the scan/removal gap)
Removed == totalBacteria - Len(bacteria)

\* occurrences of x in the sequence xs
Occurrences(xs, x) == Cardinality({i \in DOMAIN xs : xs[i] = x})

\* C1: onComplete is invoked at most once in any run, whatever kills follow
\* the first invocation.
C1_OnCompleteAtMostOnce == completes.count <= 1

\* C2: the game is never complete early: when the completion flag is set or
\* onComplete has been invoked, the kill count is at least
\* ceil(0.8 x totalSpawned).
C2_NeverCompleteEarly ==
  (gameComplete \/ completes.count > 0) => bacteriaKilled >= LevelThreshold

\* C3: the batch of kills that brings the kill count to the threshold is the
\* one that moves the machine from Active to Complete: in that step the flag
\* goes from false to true and onComplete is emitted.
C3_TransitionAtThresholdBatch ==
  [][(bacteriaKilled < LevelThreshold /\ bacteriaKilled' >= LevelThreshold)
       => (~gameComplete /\ gameComplete' /\ completes'.count = completes.count + 1)]_vars

\* C4: whenever onComplete is invoked, its argument is
\* min(100, runningScore + 50) with runningScore the sum of the point values
\* of every bacterium killed up to and including the batch being processed.
C4_FinalScoreIsClampedRunningScore ==
  [][completes'.count > completes.count
       => completes'.last = Min(MaxReported, killedPoints' + Bonus)]_vars

\* C5: the +50 completion bonus is applied to the score at most once in a run.
C5_BonusAtMostOnce == bonusCount <= 1

\* C6: the score never decreases from one state to the next.
C6_ScoreMonotone == [][score' >= score]_vars

\* C7: onScoreUpdate has been invoked once per kill, and its last argument is
\* the running score, the sum of the point values of all bacteria killed so far.
C7_ScoreUpdateIsRunningScore ==
  pc # "sweep" =>
    /\ scoreUpdates.count = Removed
    /\ scoreUpdates.count > 0 => scoreUpdates.last = killedPoints

\* C8: while the kill count is below the threshold, the score is exactly the
\* sum of the point values of the bacteria killed so far (each tick added the
\* points of its kills, each bacterium once, and nothing else).
C8_ScoreIsSumOfKillsBeforeCompletion ==
  (pc = "idle" /\ bacteriaKilled < LevelThreshold) => score = killedPoints

\* C9: a projectile registers at most one hit per collision pass: no
\* projectile index is pushed to projectilesToRemove more than once by a scan.
C9_OneHitPerProjectile ==
  \A p \in 1..Len(projectiles) : Occurrences(projectilesToRemove, p) <= 1

\* C10: the hit points of every bacterium in bacteriaRef are at least 0 in
\* every state, also between the scan and the removal loop of a tick.
C10_HealthNeverNegative ==
  \A b \in 1..Len(bacteria) : bacteria[b].health >= 0

\* C10 witness: inside a tick, two unexpired projectiles were within hit radius
\* of the same bacterium and its hit points stand at 0.
C10_Witness ==
  /\ pc = "sweep"
  /\ \E b \in 1..Len(bacteria) :
       /\ bacteria[b].health = 0
       /\ \E p1, p2 \in 1..Len(projectiles) :
            /\ p1 # p2
            /\ ~Expired(projectiles[p1], now) /\ ~Expired(projectiles[p2], now)
            /\ b \in near[p1] /\ b \in near[p2]

\* C11: at the end of every tick every bacterium of the live set has at least
\* 1 hit point, so every bacterium present at the start of a tick is steered
\* and none with 0 hit points is steered or collision-tested.
C11_DeadRemovedInSameTick ==
  /\ pc # "sweep" => \A b \in 1..Len(bacteria) : bacteria[b].health >= 1
  /\ pc = "sweep" => /\ events # <<>>
                     /\ events[1] = [op |-> "steer", p |-> 0, bs |-> 1..Len(bacteria)]

\* C11 witness: a tick has ended, it removed a bacterium, and a damaged
\* Streptococcus is still in the live set with 1 hit point.
C11_Witness ==
  /\ pc # "sweep"
  /\ Removed >= 1
  /\ \E b \in 1..Len(bacteria) :
       bacteria[b].type = "streptococcus" /\ bacteria[b].health = 1

\* C12: every bacterium is counted as a kill at most once: no index is flagged
\* twice in a pass, the kill count never decreases, and kills (committed or
\* queued) plus live bacteria always equal the total spawned.
C12_KillsCountedOnce ==
  /\ [](\A b \in 1..Len(bacteria) : Occurrences(bacteriaToRemove, b) <= 1)
  /\ [](pc # "sweep" =>
          bacteriaKilled + Len(killedQueue) + Len(bacteria) = totalBacteria)
  /\ [](bacteriaKilled <= totalBacteria)
  /\ [][bacteriaKilled' >= bacteriaKilled]_vars

\* C12 witness: after an earlier kill was counted, two projectiles are within
\* hit radius of the same bacterium in one pass and it is flagged for removal.
C12_Witness ==
  /\ pc = "sweep"
  /\ bacteriaKilled >= 1
  /\ \E i \in 1..Len(bacteriaToRemove) :
       \E p1, p2 \in 1..Len(projectiles) :
         /\ p1 # p2
         /\ bacteriaToRemove[i] \in near[p1]
         /\ bacteriaToRemove[i] \in near[p2]

\* age of a projectile at the current Date.now(), in milliseconds
Age(q) == now - q.createdAt

\* the scan of this tick ran the collision tests of projectile p against every
\* bacterium of the live set
CollisionTested(p) ==
  \E e \in 1..Len(events) :
    events[e] = [op |-> "test", p |-> p, bs |-> 1..Len(bacteria)]

\* C13 as stated: a projectile that hit nothing is live and collision-tested at
\* every tick up to 2.9 s after its creation and is gone after any tick run
\* 3.0 s or more after it.
C13_GoneAtThreeSeconds ==
  [][pc = "sweep" =>
       \A p \in 1..Len(projectiles) :
         /\ Age(projectiles[p]) <= 2900 =>
              CollisionTested(p) /\ projectiles[p] \in Range(projectiles')
         /\ Age(projectiles[p]) >= 3000 =>
              projectiles[p] \notin Range(projectiles')]_vars

\* C13: a projectile that hit nothing is live and collision-tested at every
\* tick run up to and including 3.0 s after its creation, and is gone after any
\* tick run later than that.
C13_GoneAfterThreeSeconds ==
  [][pc = "sweep" =>
       /\ projectiles' = SelectSeq(projectiles, LAMBDA q : Age(q) <= 3000)
       /\ \A p \in 1..Len(projectiles) :
            Age(projectiles[p]) <= 3000 => CollisionTested(p)]_vars

\* C13 witness: a tick ran exactly 3.0 s after the creation of a projectile and
\* the projectile is still in the live set after it.
C13_Witness ==
  /\ pc = "idle"
  /\ \E p \in 1..Len(projectiles) : Age(projectiles[p]) = 3000

\* C14: the completion flag is one-way: no step takes it from true to false.
C14_CompletionOneWay == [][gameComplete => gameComplete']_vars

\* C14 witness: the flag is true after a second kill was committed and while a
\* projectile fired since is live.
C14_Witness ==
  /\ gameComplete
  /\ bacteriaKilled >= 2
  /\ pc = "idle"
  /\ Len(projectiles) >= 1

\* the values presented to the player
Presented == <<score, bacteriaKilled, gameComplete>>

\* C15: score, kill count and completion flag change only when the updates
\* queued by the removal of a killed bacterium are committed; a removal pass
\* with no killed bacterium queues nothing and ends the tick, and clicks,
\* pointer-lock changes and the scan leave the three values and the queues alone.
C15_OnlyHitResolutionWrites ==
  [][/\ Presented' # Presented => pc = "render" /\ killedQueue # <<>>
     /\ <<scoreQueue, killedQueue>>' # <<scoreQueue, killedQueue>> =>
          \/ pc = "sweep" /\ bacteriaToRemove # <<>>
          \/ pc = "render"
     /\ pc = "sweep" /\ bacteriaToRemove = <<>> =>
          /\ pc' = "idle"
          /\ bacteria' = bacteria
          /\ <<scoreUpdates, completes>>' = <<scoreUpdates, completes>>]_vars

\* C15 witness: after an earlier kill, a scan in which a projectile expired and
\* another one missed has flagged no bacterium.
C15_Witness ==
  /\ pc = "sweep"
  /\ bacteriaKilled >= 1
  /\ bacteriaToRemove = <<>>
  /\ Len(projectiles) = 2
  /\ Len(projectilesToRemove) = 1

\* C16: a click while the pointer is locked appends exactly one projectile of
\* speed 25 stamped with the current time and leaves the existing projectiles
\* and the bacteria unchanged.
C16_FireAddsOneProjectile ==
  [][HandleClick /\ isPointerLocked =>
       /\ projectiles' = Append(projectiles, [speed |-> 25, createdAt |-> now])
       /\ bacteria' = bacteria]_vars

\* C16 witness: two projectiles fired at the same instant are both live.
C16_Witness ==
  /\ isPointerLocked
  /\ Len(projectiles) = 2
  /\ projectiles[1].createdAt = projectiles[2].createdAt
  /\ projectiles[1].createdAt = now
  /\ now > 0

\* number of bacteria one iteration of the spawn loop has placed
Placed == Len(bacteria') - Len(bacteria)

\* C17: the spawn loop places 3 to 5 bacteria in each populated room and none
\* in room[0]; the total set at the end of the mount is the number placed,
\* between 12 and 20, and no later step changes it.
C17_SpawnCounts ==
  /\ [][pc = "mount" /\ roomIndex' = roomIndex + 1 =>
          /\ roomIndex = 0 => Placed = 0
          /\ rooms[roomIndex + 1].hasBacteria => Placed \in 3..5
          /\ SubSeq(bacteria', 1, Len(bacteria)) = bacteria]_vars
  /\ [][pc = "mount" /\ pc' # "mount" =>
          /\ totalBacteria' = Len(bacteria)
          /\ totalBacteria' \in 12..20]_vars
  /\ [][pc # "mount" => totalBacteria' = totalBacteria]_vars

\* C17 witness: a level spawned with 5 bacteria in each of the 4 populated
\* rooms, after a kill was committed.
C17_Witness ==
  /\ pc = "idle"
  /\ roomIndex = 5
  /\ totalBacteria = 20
  /\ bacteriaKilled >= 1

\* C18: every generated level has exactly 5 rooms, the first at the origin
\* without bacteria and the 4 others with bacteria.
C18_FiveRooms ==
  rooms # <<>> =>
    /\ Len(rooms) = 5
    /\ rooms[1].position = <<0, 0, 0>>
    /\ ~rooms[1].hasBacteria
    /\ \A i \in 2..5 : rooms[i].hasBacteria

\* C18 witness: a generated level in which one room drew the largest width and
\* another room the smallest.
C18_Witness ==
  /\ rooms # <<>>
  /\ rooms[2].size.width = 10 * RandomDen + 6 * (RandomDen - 1)
  /\ rooms[3].size.width = 10 * RandomDen
  /\ rooms[5].size.height = 5 * RandomDen + 3 * (RandomDen - 1)

\* the tick history holds the steering first and then, projectile by
\* projectile, the advance followed by the expiry or by the collision tests
StepOf(p) == <<events[2 * p].op, events[2 * p].p, events[2 * p + 1].op, events[2 * p + 1].p>>

\* nothing of this tick has been scored when the scan ends
NothingScoredYet == scoreQueue = <<>> /\ killedQueue = <<>>

\* C19 as stated: steering, then the advance and expiry check of every
\* projectile, then every collision test, then scoring.
C19_AdvanceAllBeforeAnyTest ==
  pc = "sweep" =>
    /\ events[1].op = "steer"
    /\ \A i, j \in 2..Len(events) :
         events[i].op \in {"advance", "expire"} /\ events[j].op = "test" => i < j
    /\ NothingScoredYet

\* C19: all live bacteria are steered before any projectile is advanced; each
\* projectile in list order is advanced and expiry-checked and, unless it
\* expired, collision-tested before the next projectile is advanced; all of it
\* comes before any score, kill count or completion update.
C19_AdvanceThenTestPerProjectile ==
  pc = "sweep" =>
    /\ events[1] = [op |-> "steer", p |-> 0, bs |-> 1..Len(bacteria)]
    /\ Len(events) = 1 + 2 * Len(projectiles)
    /\ \A p \in 1..Len(projectiles) :
         StepOf(p) = <<"advance", p,
                       IF Age(projectiles[p]) > 3000 THEN "expire" ELSE "test", p>>
    /\ NothingScoredYet

\* C19 witness: a scan over two unexpired projectiles that killed a bacterium.
C19_Witness ==
  /\ pc = "sweep"
  /\ Len(projectiles) = 2
  /\ projectilesToRemove # <<>>
  /\ bacteriaToRemove # <<>>
  /\ \A p \in 1..2 : Age(projectiles[p]) <= 3000

\* projectile p registered a hit in this tick: a bacterium within hit radius
\* was live when p was tested against it
RegisteredHit(p) ==
  \E e \in 1..Len(events) :
    /\ events[e].op = "test"
    /\ events[e].p = p
    /\ near[p] \cap events[e].bs # {}

\* the elements of ps at the indices of S, in order
Restrict(ps, S) ==
  LET F[i \in 0..Len(ps)] ==
        IF i = 0 THEN <<>>
        ELSE IF i \in S THEN Append(F[i - 1], ps[i]) ELSE F[i - 1]
  IN F[Len(ps)]

\* C20: the removal pass of a tick removes exactly the projectiles that
\* expired or registered a hit on a live bacterium; one that was only within
\* hit radius of bacteria already at 0 hit points stays.
C20_RemovedIffExpiredOrHit ==
  [][pc = "sweep" =>
       projectiles' =
         Restrict(projectiles,
                  {p \in 1..Len(projectiles) :
                     ~(Age(projectiles[p]) > 3000) /\ ~RegisteredHit(p)})]_vars

\* C20 witness: a projectile within hit radius only of a bacterium that an
\* earlier projectile of the same tick brought to 0 hit points is not flagged.
C20_Witness ==
  /\ pc = "sweep"
  /\ \E p \in 1..Len(projectiles) :
       /\ near[p] # {}
       /\ \A b \in near[p] : bacteria[b].health = 0
       /\ p \notin Range(projectilesToRemove)
       /\ Age(projectiles[p]) <= 3000

\* a step that runs the scan of a tick
ScanStep == pc = "idle" /\ pc' = "sweep"

\* C21: a projectile found expired in a tick is flagged once, is not
\* collision-tested, and decrements nothing: a bacterium that only expired
\* projectiles are within hit radius of keeps its hit points.
C21_ExpiredHitsNothing ==
  /\ [](pc = "sweep" =>
          \A p \in 1..Len(projectiles) :
            Age(projectiles[p]) > 3000 =>
              /\ Occurrences(projectilesToRemove, p) = 1
              /\ \A e \in 1..Len(events) :
                   events[e].p = p => events[e].op \in {"advance", "expire"})
  /\ [][ScanStep =>
          \A b \in 1..Len(bacteria) :
            (\A p \in 1..Len(projectiles) :
               b \in near'[p] => now' - projectiles[p].createdAt > 3000)
            => bacteria'[b] = bacteria[b]]_vars

\* C21 witness: the scan found a projectile expired while it was within hit
\* radius of a bacterium that still has all its hit points.
C21_Witness ==
  /\ pc = "sweep"
  /\ \E p \in 1..Len(projectiles) :
       /\ Age(projectiles[p]) > 3000
       /\ \E b \in near[p] :
            bacteria[b].health = BACTERIA_TYPES[bacteria[b].type].health

\* the indices of xs that were not marked
Unmarked(xs, marks) == (1..Len(xs)) \ Range(marks)

\* C22: the removal pass leaves exactly the unmarked projectiles and the
\* unmarked bacteria, each once and in their original order, also when an
\* index was marked several times.
C22_ExactlyMarkedRemoved ==
  [][pc = "sweep" =>
       /\ projectiles' = Restrict(projectiles, Unmarked(projectiles, projectilesToRemove))
       /\ bacteria' = Restrict(bacteria, Unmarked(bacteria, bacteriaToRemove))]_vars

\* C22 witness: a projectile index is marked twice, another projectile is not
\* marked, and two bacteria are marked.
C22_Witness ==
  /\ pc = "sweep"
  /\ Len(projectiles) = 2
  /\ \E p \in 1..2 : Occurrences(projectilesToRemove, p) = 2
  /\ \E p \in 1..2 : Occurrences(projectilesToRemove, p) = 0
  /\ Len(bacteriaToRemove) = 2

\* the unexpired projectiles of this tick within hit radius of bacterium b
HittersOf(b) ==
  {p \in 1..Len(projectiles) :
     b \in near'[p] /\ ~(now' - projectiles[p].createdAt > 3000)}

\* C24: when k unexpired projectiles are within hit radius of a live bacterium
\* with h hit points in one scan, it is left with max(0, h - k) hit points, and
\* every projectile that decremented a bacterium is flagged for removal.
C24_HitsAddUp ==
  /\ [][ScanStep =>
          \A b \in 1..Len(bacteria) :
            LET h == bacteria[b].health
                k == Cardinality(HittersOf(b))
            IN bacteria'[b].health = IF h - k > 0 THEN h - k ELSE 0]_vars
  /\ [](pc = "sweep" =>
          \A p \in 1..Len(projectiles) :
            RegisteredHit(p) => p \in Range(projectilesToRemove))

\* C24 witness: two projectiles were within hit radius of the same
\* Streptococcus with 2 hit points in one scan and both hit it.
C24_Witness ==
  /\ pc = "sweep"
  /\ Len(projectiles) = 2
  /\ \E b \in near[1] \cap near[2] :
       /\ bacteria[b].type = "streptococcus"
       /\ bacteria[b].health = 0
       /\ Range(projectilesToRemove) = {1, 2}
       /\ bacteriaKilled = 0

\* a scan leaves a bacterium hit fewer times than it has hit points in the
\* list, unflagged, with the remaining hit points; one hit as often as it has
\* hit points, or more, is flagged once
SurvivesEarlyHits ==
  [][ScanStep =>
       \A b \in 1..Len(bacteria) :
         LET h == bacteria[b].health
             k == Cardinality(HittersOf(b))
         IN /\ k < h => /\ bacteria'[b].health = h - k
                        /\ Occurrences(bacteriaToRemove', b) = 0
            /\ k >= h => Occurrences(bacteriaToRemove', b) = 1]_vars

\* a removal pass with no flagged bacterium keeps the list and queues no update
SurvivorsScoreNothing ==
  [][pc = "sweep" /\ bacteriaToRemove = <<>> =>
       /\ bacteria' = bacteria
       /\ pc' = "idle"
       /\ <<scoreQueue, killedQueue>>' = <<scoreQueue, killedQueue>>]_vars

C26_ChaseIffWithin15 ==
  (steerLog.rule # "none" /\ steered.type = "streptococcus") =>
    IF steerLog.dist < 150
    THEN steerLog.rule = "chase" /\ steerLog.goal = 30
    ELSE steerLog.rule = "wander" /\ steerLog.goal = 15

\* C26 witness: a Streptococcus exactly 16 units from the player was steered.
C26_Witness ==
  /\ steered.type = "streptococcus"
  /\ steerLog.rule = "wander"
  /\ steerLog.dist = 160

\* C27: a step that applies the wander rule picks a new target exactly when
\* the countdown, after the delta was taken off, is at or below 0 or no target
\* is set, and then resets the countdown to between 2 and 4 seconds; otherwise
\* target and countdown are kept; after the step there is a target and the
\* countdown is positive.
C27_WanderPick ==
  /\ [](steerLog.rule = "wander" =>
          /\ steered.targetPosition # 0
          /\ steered.wanderTimer > 0
          /\ steerLog.picked => steered.wanderTimer \in 2000..4000)
  /\ [][steerLog'.rule = "wander" =>
          LET countdown == steered.wanderTimer - steerLog'.dt
          IN /\ steerLog'.picked <=> (countdown <= 0 \/ steered.targetPosition = 0)
             /\ ~steerLog'.picked =>
                  /\ steered'.targetPosition = steered.targetPosition
                  /\ steered'.wanderTimer = countdown]_vars

\* C27 witness: a wander step kept the target picked earlier while its
\* countdown, reset since, is still running.
C27_Witness ==
  /\ steerLog.rule = "wander"
  /\ ~steerLog.picked
  /\ steerLog.dt > 0
  /\ steered.targetPosition # 0
  /\ steered.wanderTimer \in 1..1999

\* C28: the height of a bacterium is between 0.5 and 5 units in every state,
\* from its spawn on.
C28_HeightInBand == steered.y >= 500 /\ steered.y <= 5000

\* C28 witness: a steering step carried a bacterium to the lower end of the band.
C28_Witness ==
  /\ steerLog.rule # "none"
  /\ steerLog.dt > 0
  /\ steered.y = 500

\* C29: every press of Launch is eventually followed by isLaunched being
\* false again.
C29_LaunchEventuallyCleared == isLaunched ~> ~isLaunched

\* C30: after the n-th successful landing the success count is n and the
\* score reported last is 20 x n, and an onComplete has been scheduled, with
\* score 100, exactly when 5 landings were successful.
C30_NthLandingCountsN ==
  /\ successCount = landings
  /\ landings > 0 => launchScoreUpdates.last = 20 * landings
  /\ launchScoreUpdates.count = landings
  /\ completeTimers # <<>> <=> landings >= 5
  /\ \A i \in 1..Len(completeTimers) : completeTimers[i] = 100
====
